---- MODULE Spec2Model ----
(***************************************************************************)
(* A model of the agent-browser daemon (src/src/daemon.ts) and of the two  *)
(* collaborators its tests pin down: the command executor's focus guard    *)
(* (src/src/actions.test.ts) and the snapshot builder                      *)
(* (src/src/snapshot.test.ts).                                             *)
(*                                                                         *)
(* Six specifications share the module:                                    *)
(*   Spec          the connection handler of startDaemon: line framing,    *)
(*                 the HTTP filter, auto-launch, dispatch, 'close' and the *)
(*                 shutdown handler, on a daemon that is already bound;    *)
(*   SpecLifecycle the session files: startDaemon's bind-then-PID          *)
(*                 sequence, cleanupSocket and the isDaemonRunning probe;  *)
(*   SpecGuard     the focus guard as executeCommand and                   *)
(*                 getEnhancedSnapshot drive it;                           *)
(*   SpecPort      getPortForSession and the ports tryPort asks for;       *)
(*   SpecError     toAIFriendlyError, the translation of engine failures;  *)
(*   SpecShutdown  the connection handler and the signal shutdown of a     *)
(*                 bound daemon with its files, under weak fairness of     *)
(*                 the promises `shutdown` awaits.                         *)
(*                                                                         *)
(* Text is a sequence of one-character strings.  A command line of the     *)
(* wire protocol (one JSON object per line) is abbreviated to two          *)
(* characters, its id and its action: <<"1","k">> stands for               *)
(* {"id":"1","action":"click",...}.                                        *)
(***************************************************************************)
EXTENDS Integers, Sequences, FiniteSets, TLC

\* ------------------------------------------------------------------ bounds
\* Number of client connections the daemon accepts.
NumConns == 2
\* Total number of 'data' events (reads) delivered over all connections.
MaxReads == 2

\* Number of daemon processes started for the one session.
NumDaemons == 2

\* Number of commands the executor can have in flight at once (one per
\* connection), and the total number of commands begun.
NumSlots == 2
MaxCmds == 3

\* Longest session name, in characters.
MaxNameLen == 6

\* Largest number of fragments in a raw failure text.
MaxFragments == 3

Conns == 1 .. NumConns
Slots == 1 .. NumSlots
Daemons == 1 .. NumDaemons

\* ------------------------------------------------------------------- text
LF == "\n"

\* The characters String.prototype.trim / trimStart and the regex \s strip,
\* among the characters the clients of this model send.
Whitespace == {" ", LF}

\* The /i flag of the HTTP filter's regular expression.
ToUpper(ch) ==
    CASE ch = "g" -> "G"
      [] ch = "e" -> "E"
      [] ch = "t" -> "T"
      [] OTHER    -> ch

UpperSeq(s) == [i \in 1 .. Len(s) |-> ToUpper(s[i])]

RECURSIVE TrimStart(_)
TrimStart(s) ==
    IF s # <<>> /\ Head(s) \in Whitespace THEN TrimStart(Tail(s)) ELSE s

RECURSIVE TrimEnd(_)
TrimEnd(s) ==
    IF s # <<>> /\ s[Len(s)] \in Whitespace
    THEN TrimEnd(SubSeq(s, 1, Len(s) - 1))
    ELSE s

Trim(s) == TrimEnd(TrimStart(s))

\* buffer.includes('\n')
HasNewline(s) == \E i \in 1 .. Len(s) : s[i] = LF

\* buffer.indexOf('\n'), 1-based; only used when HasNewline(s).
IndexOfNewline(s) == CHOOSE i \in 1 .. Len(s) : s[i] = LF /\ \A j \in 1 .. i - 1 : s[j] # LF

\* The verbs of the filter's regular expression.
HttpVerbs ==
    { <<"G","E","T">>, <<"P","O","S","T">>, <<"P","U","T">>,
      <<"D","E","L","E","T","E">>, <<"H","E","A","D">>,
      <<"O","P","T","I","O","N","S">>, <<"P","A","T","C","H">>,
      <<"C","O","N","N","E","C","T">>, <<"T","R","A","C","E">> }

\* /^(GET|POST|PUT|DELETE|HEAD|OPTIONS|PATCH|CONNECT|TRACE)\s/i.test(s)
MatchesHttpRequest(s) ==
    \E v \in HttpVerbs :
        /\ Len(s) > Len(v)
        /\ UpperSeq(SubSeq(s, 1, Len(v))) = v
        /\ s[Len(v) + 1] \in Whitespace

\* The test the handler applies to the buffer of the first read.
IsHttpRequest(buf) == MatchesHttpRequest(TrimStart(buf))

\* ------------------------------------------------------- the wire protocol
NoId == "none"
IdChars == {"1", "2"}

\* The actions of the abbreviated wire syntax.
ActionOf(ch) ==
    CASE ch = "k" -> "click"
      [] ch = "c" -> "close"
      [] ch = "l" -> "launch"
      [] OTHER    -> "unrecognized"

\* parseCommand: a discriminated result that never throws.  A line whose id
\* is readable but whose action is not recognised fails with the id kept; a
\* line that is not a command at all fails with no id.
parseCommand(line) ==
    LET t == Trim(line) IN
    IF Len(t) = 2 /\ t[1] \in IdChars /\ ActionOf(t[2]) # "unrecognized"
    THEN [success |-> TRUE, id |-> t[1], action |-> ActionOf(t[2])]
    ELSE IF Len(t) >= 1 /\ t[1] \in IdChars
    THEN [success |-> FALSE, id |-> t[1], action |-> "unrecognized"]
    ELSE [success |-> FALSE, id |-> NoId, action |-> "unrecognized"]

\* A Response as written to the socket.  `line` is not on the wire: it
\* records the line that triggered the Response.
Response(id, success, line) == [id |-> id, success |-> success, line |-> line]

\* errorResponse(id, message)
errorResponse(id, line) == Response(id, FALSE, line)

\* ------------------------------------------------------------------ state
VARIABLES
    \* startDaemon's connection handler (Spec)
    buffer,        \* per connection: `buffer`, the text not yet split into lines
    httpChecked,   \* per connection: `httpChecked`
    destroyed,     \* per connection: socket.destroy() was called
    received,      \* per connection: every byte the socket delivered (history)
    out,           \* per connection: the Responses written with socket.write
    fed,           \* per connection: the lines passed to parseCommand (history)
    tasks,         \* the suspended invocations of the async 'data' handler
    launched,      \* browser.isLaunched()
    launchCalls,   \* how many browser.launch calls the daemon has started
    dispatched,    \* the commands handed to executeCommand (history)
    shuttingDown,  \* `shuttingDown`
    closeTimer,    \* the 100 ms teardown timer of 'close' is pending
    sdPc,          \* where the signal handler `shutdown` is suspended
    streamServer,  \* `streamServer` is non-null
    exited,        \* process.exit was called
    reads          \* number of 'data' events delivered so far

daemonVars ==
    << buffer, httpChecked, destroyed, received, out, fed, tasks, launched,
       launchCalls, dispatched, shuttingDown, closeTimer, sdPc, streamServer,
       exited, reads >>

VARIABLES
    \* the session's files and the daemon processes (SpecLifecycle)
    isWindows,     \* `isWindows`: the TCP platform
    files,         \* the session's files: 0 when absent, else the content
    dpc,           \* per daemon process: where startDaemon / shutdown stands
    attempt,       \* per daemon: `attempt` of tryPort (the port is basePort + attempt)
    hasStream,     \* per daemon: `streamServer` is non-null
    listening,     \* per daemon: the server holds its address
    boundOnce,     \* per daemon: server.listen has succeeded (history)
    bindFailed,    \* per daemon: the bind promise was rejected (history)
    probe,         \* the last isDaemonRunning call: its result, the files it left
    lastExit       \* the exit a daemon has just made: its path, the files it met

lifeVars ==
    << isWindows, files, dpc, attempt, hasStream, listening, boundOnce,
       bindFailed, probe, lastExit >>

VARIABLES
    \* the focus guard of the session's page (SpecGuard)
    guard,         \* FocusGuardState: "idle" or "armed"
    leftArmed,     \* a focus-mutating command succeeded and left the guard armed (history)
    slot,          \* per slot: the command the executor is running, and its calls
    issued         \* number of commands begun so far

guardVars == << guard, leftArmed, slot, issued >>

VARIABLES
    \* the TCP port of a session (SpecPort)
    currentSession, \* `currentSession`: the session name, as character codes
    portPc,        \* where the bind stands: "start", "trying", "listening", "failed"
    basePort,      \* `basePort` (0: not computed yet)
    tryingPort,    \* `port` of the tryPort call under way
    tryAttempt,    \* `attempt` of the tryPort call under way
    portFile,      \* the content of the session's port file (0: absent)
    clientPort     \* the port getConnectionInfo gave a client (0: not asked yet)

portVars ==
    << currentSession, portPc, basePort, tryingPort, tryAttempt, portFile,
       clientPort >>

VARIABLES
    \* the translation of an engine failure (SpecError)
    rawError,      \* the raw failure text, as a sequence of fragments
    friendly       \* the translation toAIFriendlyError returned

errorVars == << rawError, friendly >>

vars == << daemonVars, lifeVars, guardVars, portVars, errorVars >>

\* ------------------------------------------------------ the session files
FileNames == {"pid", "stream", "port", "sock"}

NoFiles == [f \in FileNames |-> 0]

\* cleanupSocket: removes the pid file, the stream-port file and, by
\* platform, the port file or the socket.  Removing an absent file is skipped.
cleanupSocketKeepsStream(f, win) ==
    [n \in FileNames |->
        IF n = "pid" \/ (win /\ n = "port") \/ (~win /\ n = "sock")
        THEN 0
        ELSE f[n]]
cleanupSocket(f, win) ==
    [n \in FileNames |->
        IF n \in {"pid", "stream"} \/ (win /\ n = "port") \/ (~win /\ n = "sock")
        THEN 0
        ELSE f[n]]

\* process.on('exit', ...): process.exit runs cleanupSocket() once more.
OnExit(f, win) == cleanupSocket(f, win)

\* ------------------------------------------------- the 'data' handler loop
\* One suspended invocation of the handler: the connection it serves, the
\* await it is parked on, and the command it parsed.  `seq` is the position
\* of the command's line among the lines of the connection fed to the codec.
Task(c, at, cmd, line, seq) ==
    [conn |-> c, at |-> at, id |-> cmd.id, action |-> cmd.action, line |-> line,
     seq |-> seq]

\* The auto-launch condition.
NeedsAutoLaunch(cmd, isLaunched) ==
    ~isLaunched /\ cmd.action # "launch" /\ cmd.action # "close"

\* The id of the Response to a line that did not parse: parseResult.id ?? 'unknown'.
ParseFailureId(pr) == IF pr.id = NoId THEN "unknown" ELSE pr.id

\* The id the catch-all handler gives its Response.
CatchAllId(task) == "error"

\* socket.write(serializeResponse(resp) + '\n') on a connection whose
\* Responses so far are outc.  `seq` is not on the wire: it records which of
\* the connection's lines the Response answers.
socketWrite(outc, resp, seq) ==
    Append(outc, [id |-> resp.id, success |-> resp.success, line |-> resp.line,
                  seq |-> seq])

\* while (buffer.includes('\n')) { ... }: runs synchronously until the buffer
\* holds no complete line or the handler reaches an await.  Returns the
\* buffer, the Responses of the connection and the lines fed to the codec
\* afterwards, and the await the invocation is parked on (none: the
\* invocation has returned).
RECURSIVE RunLoop(_, _, _, _, _)
RunLoop(c, buf, outc, fedc, isLaunched) ==
    IF ~HasNewline(buf)
    THEN [buffer |-> buf, out |-> outc, fed |-> fedc, await |-> <<>>]
    ELSE LET newlineIdx == IndexOfNewline(buf)
             line == SubSeq(buf, 1, newlineIdx - 1)
             rest == SubSeq(buf, newlineIdx + 1, Len(buf))
             pr   == parseCommand(line)
             seq  == Len(fedc) + 1
         IN  IF Trim(line) = <<>>
             THEN RunLoop(c, rest, outc, fedc, isLaunched)
             ELSE IF ~pr.success
             THEN RunLoop(c, rest,
                          socketWrite(outc, errorResponse(ParseFailureId(pr), line), seq),
                          Append(fedc, line), isLaunched)
             ELSE IF NeedsAutoLaunch(pr, isLaunched)
             THEN [buffer |-> rest, out |-> outc, fed |-> Append(fedc, line),
                   await |-> << Task(c, "launch", pr, line, seq) >>]
             ELSE [buffer |-> rest, out |-> outc, fed |-> Append(fedc, line),
                   await |-> << Task(c, "exec", pr, line, seq) >>]

\* catch (err) { socket.write(... errorResponse('error', message) ...) } of
\* the invocation t: the Response is written and the while loop goes on
\* with the next buffered line.
CatchAllReturns(t, buf, outc, fedc, isLaunched) ==
    [buffer |-> buf, fed |-> fedc, await |-> <<>>,
     out |-> socketWrite(outc, errorResponse(CatchAllId(t), t.line), t.seq)]
CatchAll(t, buf, outc, fedc, isLaunched) ==
    RunLoop(t.conn, buf,
            socketWrite(outc, errorResponse(CatchAllId(t), t.line), t.seq),
            fedc, isLaunched)

\* The invocations among `aw` (none or one) parked on the await `at`.
AwaitsAt(aw, at) == { aw[i] : i \in { j \in DOMAIN aw : aw[j].at = at } }

\* A call of executeCommand, for the command of invocation t.
Dispatch(t) == [conn |-> t.conn, line |-> t.line, seq |-> t.seq]

\* The calls of executeCommand that `aw` starts.
Dispatches(aw) == { Dispatch(t) : t \in AwaitsAt(aw, "exec") }

RemoveAt(s, i) == SubSeq(s, 1, i - 1) \o SubSeq(s, i + 1, Len(s))

\* The chunks a read can deliver.
Chunks ==
    { << "1", "k", LF >>,                      \* one click command
      << "2", "c", LF, "1", "k", LF >>,        \* close, then a click, in one read
      << "G", "E" >>,                          \* the start of an HTTP request line
      << "T", " ", LF >>,                      \* ... and its end
      << "G", "E", "T", " ", LF >>,            \* an HTTP request line in one read
      << LF, "1", "x", LF >> }                 \* a blank line and an unknown action

DaemonInit ==
    /\ buffer = [c \in Conns |-> <<>>]
    /\ httpChecked = [c \in Conns |-> FALSE]
    /\ destroyed = [c \in Conns |-> FALSE]
    /\ received = [c \in Conns |-> <<>>]
    /\ out = [c \in Conns |-> <<>>]
    /\ fed = [c \in Conns |-> <<>>]
    /\ tasks = <<>>
    /\ launched = FALSE
    /\ launchCalls = 0
    /\ dispatched = {}
    /\ shuttingDown = FALSE
    /\ closeTimer = FALSE
    /\ sdPc = "idle"
    /\ streamServer \in BOOLEAN
    /\ exited = FALSE
    /\ reads = 0

\* A 'data' event of connection c is delivered to its handler: the process
\* runs and the socket is open.  Invocations parked on an await do not hold
\* the event loop.
CanHandleDataBlocking(c) == ~exited /\ ~destroyed[c] /\ tasks = <<>>
CanHandleData(c) == ~exited /\ ~destroyed[c]

\* socket.on('data', async (data) => { ... }) up to its first await.
OnData(c, chunk) ==
    /\ CanHandleData(c) /\ reads < MaxReads
    /\ reads' = reads + 1
    /\ received' = [received EXCEPT ![c] = @ \o chunk]
    /\ httpChecked' = [httpChecked EXCEPT ![c] = TRUE]
    /\ LET buf == buffer[c] \o chunk IN
       IF ~httpChecked[c] /\ IsHttpRequest(buf)
       THEN /\ destroyed' = [destroyed EXCEPT ![c] = TRUE]
            /\ buffer' = [buffer EXCEPT ![c] = buf]
            /\ UNCHANGED << out, fed, tasks, launchCalls, dispatched >>
       ELSE LET r == RunLoop(c, buf, out[c], fed[c], launched) IN
            /\ buffer' = [buffer EXCEPT ![c] = r.buffer]
            /\ out' = [out EXCEPT ![c] = r.out]
            /\ fed' = [fed EXCEPT ![c] = r.fed]
            /\ tasks' = tasks \o r.await
            /\ launchCalls' = launchCalls + Cardinality(AwaitsAt(r.await, "launch"))
            /\ dispatched' = dispatched \cup Dispatches(r.await)
            /\ UNCHANGED destroyed
    /\ UNCHANGED << launched, shuttingDown, closeTimer, sdPc, streamServer, exited >>
    /\ UNCHANGED << lifeVars, guardVars, portVars, errorVars >>

\* The promise invocation i is parked on (`at`: browser.launch or
\* executeCommand) can settle and resume it: the process runs.  Promises
\* settle independently of one another and of the order of the awaits.
CanSettle(i, at) == ~exited /\ i \in DOMAIN tasks /\ tasks[i].at = at

\* The effect of a settled executeCommand on browser.isLaunched().
LaunchedAfter(action, ok, isLaunched) ==
    CASE action = "close" /\ ok  -> FALSE
      [] action = "launch" /\ ok -> TRUE
      [] OTHER                   -> isLaunched

\* `await browser.launch(...)` of the auto-launch settles.  Resolved: the
\* handler goes on to `await executeCommand`.  Rejected: the error is
\* rethrown into the catch-all, which writes a Response and lets the loop go
\* on with the next buffered line.
LaunchSettle(i, ok) ==
    /\ CanSettle(i, "launch")
    /\ LET t == tasks[i]
           c == t.conn
       IN  IF ok
           THEN /\ launched' = TRUE
                /\ tasks' = [tasks EXCEPT ![i].at = "exec"]
                /\ dispatched' = dispatched \cup { Dispatch(t) }
                /\ UNCHANGED << buffer, out, fed, launchCalls >>
           ELSE LET r == CatchAll(t, buffer[c], out[c], fed[c], launched)
                IN  /\ buffer' = [buffer EXCEPT ![c] = r.buffer]
                    /\ out' = [out EXCEPT ![c] = r.out]
                    /\ fed' = [fed EXCEPT ![c] = r.fed]
                    /\ tasks' = RemoveAt(tasks, i) \o r.await
                    /\ launchCalls' = launchCalls + Cardinality(AwaitsAt(r.await, "launch"))
                    /\ dispatched' = dispatched \cup Dispatches(r.await)
                    /\ UNCHANGED launched
    /\ UNCHANGED << httpChecked, destroyed, received, shuttingDown, closeTimer,
                    sdPc, streamServer, exited, reads >>
    /\ UNCHANGED << lifeVars, guardVars, portVars, errorVars >>

\* if (!shuttingDown) { shuttingDown = true; setTimeout(...) }: 'close' sets
\* the teardown timer only while no shutdown is under way.
ArmsCloseTimerAlways(isShuttingDown) == TRUE
ArmsCloseTimer(isShuttingDown) == ~isShuttingDown

\* `await executeCommand(parseResult.command, browser)` settles with a
\* Response that carries the command's id.  For 'close' the Response is
\* written, the teardown timer is set unless a shutdown is under way, and
\* the handler returns; for any other command the Response is written and
\* the loop goes on.
ExecSettle(i, ok) ==
    /\ CanSettle(i, "exec")
    /\ LET t == tasks[i]
           c == t.conn
           response == Response(t.id, ok, t.line)
           nowLaunched == LaunchedAfter(t.action, ok, launched)
       IN  /\ launched' = nowLaunched
           /\ IF t.action = "close"
              THEN /\ out' = [out EXCEPT ![c] = socketWrite(@, response, t.seq)]
                   /\ shuttingDown' = TRUE
                   /\ closeTimer' = (closeTimer \/ ArmsCloseTimer(shuttingDown))
                   /\ tasks' = RemoveAt(tasks, i)
                   /\ UNCHANGED << buffer, fed, launchCalls, dispatched >>
              ELSE LET r == RunLoop(c, buffer[c], socketWrite(out[c], response, t.seq),
                                    fed[c], nowLaunched)
                   IN  /\ buffer' = [buffer EXCEPT ![c] = r.buffer]
                       /\ out' = [out EXCEPT ![c] = r.out]
                       /\ fed' = [fed EXCEPT ![c] = r.fed]
                       /\ tasks' = RemoveAt(tasks, i) \o r.await
                       /\ launchCalls' = launchCalls + Cardinality(AwaitsAt(r.await, "launch"))
                       /\ dispatched' = dispatched \cup Dispatches(r.await)
                       /\ UNCHANGED << shuttingDown, closeTimer >>
    /\ UNCHANGED << httpChecked, destroyed, received, sdPc, streamServer, exited, reads >>
    /\ UNCHANGED << lifeVars, guardVars, portVars, errorVars >>

\* The timer set by 'close' fires: server.close(); cleanupSocket();
\* process.exit(0), whose 'exit' handler runs cleanupSocket() once more.
CloseTimerFire ==
    /\ ~exited /\ closeTimer
    /\ closeTimer' = FALSE
    /\ exited' = TRUE
    /\ files' = OnExit(cleanupSocket(files, isWindows), isWindows)
    /\ UNCHANGED << buffer, httpChecked, destroyed, received, out, fed, tasks, launched,
                    launchCalls, dispatched, shuttingDown, sdPc, streamServer, reads >>
    /\ UNCHANGED << isWindows, dpc, attempt, hasStream, listening, boundOnce,
                    bindFailed, probe, lastExit >>
    /\ UNCHANGED << guardVars, portVars, errorVars >>

\* SIGINT, SIGTERM or SIGHUP: `shutdown` up to its first await.  It returns
\* at once when a shutdown is under way.
Signal ==
    /\ ~exited /\ ~shuttingDown
    /\ shuttingDown' = TRUE
    /\ sdPc' = IF streamServer THEN "stopStream" ELSE "closeBrowser"
    /\ UNCHANGED << buffer, httpChecked, destroyed, received, out, fed, tasks, launched,
                    launchCalls, dispatched, closeTimer, streamServer, exited, reads >>
    /\ UNCHANGED << lifeVars, guardVars, portVars, errorVars >>

\* A promise awaited by `shutdown` rejects: nothing catches it, so the
\* 'unhandledRejection' handler runs cleanupSocket() and process.exit(1).
ShutdownRejected ==
    /\ sdPc' = "rejected"
    /\ exited' = TRUE
    /\ files' = OnExit(cleanupSocket(files, isWindows), isWindows)
    /\ UNCHANGED << launched, streamServer >>

\* `await streamServer.stop()` settles.  Resolved: streamServer = null, the
\* stream-port file is removed, and `await browser.close()` starts.
StreamStopSettle(ok) ==
    /\ ~exited /\ sdPc = "stopStream"
    /\ IF ok
       THEN /\ streamServer' = FALSE
            /\ files' = [files EXCEPT !.stream = 0]
            /\ sdPc' = "closeBrowser"
            /\ UNCHANGED << launched, exited >>
       ELSE ShutdownRejected
    /\ UNCHANGED << buffer, httpChecked, destroyed, received, out, fed, tasks,
                    launchCalls, dispatched, shuttingDown, closeTimer, reads >>
    /\ UNCHANGED << isWindows, dpc, attempt, hasStream, listening, boundOnce,
                    bindFailed, probe, lastExit >>
    /\ UNCHANGED << guardVars, portVars, errorVars >>

\* `await browser.close()` settles.  Resolved: server.close();
\* cleanupSocket(); process.exit(0).
BrowserCloseSettle(ok) ==
    /\ ~exited /\ sdPc = "closeBrowser"
    /\ IF ok
       THEN /\ launched' = FALSE
            /\ sdPc' = "done"
            /\ exited' = TRUE
            /\ files' = OnExit(cleanupSocket(files, isWindows), isWindows)
            /\ UNCHANGED streamServer
       ELSE ShutdownRejected
    /\ UNCHANGED << buffer, httpChecked, destroyed, received, out, fed, tasks,
                    launchCalls, dispatched, shuttingDown, closeTimer, reads >>
    /\ UNCHANGED << isWindows, dpc, attempt, hasStream, listening, boundOnce,
                    bindFailed, probe, lastExit >>
    /\ UNCHANGED << guardVars, portVars, errorVars >>

DaemonNext ==
    \/ \E c \in Conns, chunk \in Chunks : OnData(c, chunk)
    \/ \E i \in 1 .. MaxReads, ok \in BOOLEAN : LaunchSettle(i, ok)
    \/ \E i \in 1 .. MaxReads, ok \in BOOLEAN : ExecSettle(i, ok)
    \/ CloseTimerFire
    \/ Signal
    \/ \E ok \in BOOLEAN : StreamStopSettle(ok)
    \/ \E ok \in BOOLEAN : BrowserCloseSettle(ok)

\* ------------------------------------------------- the daemon processes
\* process.kill(pid, 0) succeeds: the process that wrote the pid is alive.
ProcessExists(pid) == pid \in Daemons /\ dpc[pid] \notin {"init", "dead"}

\* isDaemonRunning: the result and the files afterwards.
isDaemonRunning(f, win) ==
    IF f.pid = 0
    THEN [running |-> FALSE, files |-> f]
    ELSE IF ProcessExists(f.pid)
    THEN [running |-> TRUE, files |-> f]
    ELSE [running |-> FALSE, files |-> cleanupSocket(f, win)]

\* The ways a daemon shuts down.
ShutdownPaths ==
    {"signal", "uncaughtException", "unhandledRejection", "serverError",
     "bindFailure", "close"}

\* No daemon has just exited.
NoExit == [path |-> "none", had |-> {}]

\* A daemon exits by `path`; f are the files when its cleanup starts.
ExitBy(path, f) == [path |-> path, had |-> { n \in FileNames : f[n] # 0 }]

\* What startDaemon does to the files before it binds: cleanupSocket().
FilesPidFirst(d, f, win) == [cleanupSocket(f, win) EXCEPT !.pid = d]
FilesAtStartup(d, f, win) == cleanupSocket(f, win)

\* What the 'listening' callback writes: on the TCP platform the port file,
\* then, on both, the PID file.
FilesOnListening(d, f, win, port) ==
    IF win
    THEN [f EXCEPT !.port = port, !.pid = d]
    ELSE [f EXCEPT !.pid = d]

\* The port of tryPort's attempt, as an offset from basePort (1: basePort).
PortOf(a) == a + 1

\* The retry condition of tryPort's error handler: attempt < 4.
MaxAttempt == 4

\* No isDaemonRunning call has just returned.
NoProbe == [result |-> "none", left |-> {}]

LifeInit ==
    /\ isWindows \in BOOLEAN
    /\ files = NoFiles
    /\ dpc = [d \in Daemons |-> "init"]
    /\ attempt = [d \in Daemons |-> 0]
    /\ hasStream = [d \in Daemons |-> FALSE]
    /\ listening = [d \in Daemons |-> FALSE]
    /\ boundOnce = [d \in Daemons |-> FALSE]
    /\ bindFailed = [d \in Daemons |-> FALSE]
    /\ probe = NoProbe
    /\ lastExit = NoExit

\* The process of daemon d ends: its memory and its listener are gone.
ProcessGone(d) ==
    /\ dpc' = [dpc EXCEPT ![d] = "dead"]
    /\ attempt' = [attempt EXCEPT ![d] = 0]
    /\ hasStream' = [hasStream EXCEPT ![d] = FALSE]
    /\ listening' = [listening EXCEPT ![d] = FALSE]

\* startDaemon up to its first await: cleanupSocket(), then either
\* `await streamServer.start()` (streamPort > 0) or the bind.
StartDaemon(d, withStream) ==
    /\ dpc[d] = "init"
    /\ files' = FilesAtStartup(d, files, isWindows)
    /\ hasStream' = [hasStream EXCEPT ![d] = withStream]
    /\ dpc' = [dpc EXCEPT ![d] = IF withStream THEN "streamStart" ELSE "binding"]
    /\ UNCHANGED << isWindows, attempt, listening, boundOnce, bindFailed >>
    /\ probe' = NoProbe
    /\ lastExit' = NoExit
    /\ UNCHANGED << daemonVars, guardVars, portVars, errorVars >>

\* `await streamServer.start()` settles.  Resolved: the stream-port file is
\* written.  Rejected: the daemon goes on without it.  Then the bind starts.
StreamStartSettle(d, ok) ==
    /\ dpc[d] = "streamStart"
    /\ files' = IF ok THEN [files EXCEPT !.stream = d] ELSE files
    /\ dpc' = [dpc EXCEPT ![d] = "binding"]
    /\ UNCHANGED << isWindows, attempt, hasStream, listening, boundOnce, bindFailed >>
    /\ probe' = NoProbe
    /\ lastExit' = NoExit
    /\ UNCHANGED << daemonVars, guardVars, portVars, errorVars >>

\* The address server.listen asks for is free.
AddressFree(d) ==
    IF isWindows
    THEN \A e \in Daemons \ {d} : ~(listening[e] /\ attempt[e] = attempt[d])
    ELSE files.sock = 0

\* server.listen succeeds: the server holds the address (on Unix the socket
\* file now exists); the 'listening' callback has not run yet.
BindOk(d) ==
    /\ dpc[d] = "binding"
    /\ AddressFree(d)
    /\ listening' = [listening EXCEPT ![d] = TRUE]
    /\ boundOnce' = [boundOnce EXCEPT ![d] = TRUE]
    /\ files' = IF isWindows THEN files ELSE [files EXCEPT !.sock = d]
    /\ dpc' = [dpc EXCEPT ![d] = "bound"]
    /\ UNCHANGED << isWindows, attempt, hasStream, bindFailed >>
    /\ probe' = NoProbe
    /\ lastExit' = NoExit
    /\ UNCHANGED << daemonVars, guardVars, portVars, errorVars >>

\* server.listen fails.  On the TCP platform EADDRINUSE with attempt < 4
\* tries the next port; every other failure runs cleanupSocket() and rejects,
\* and the entry point's catch runs cleanupSocket() again and exits (the
\* 'exit' handler is not installed yet).
BindError(d, inUse) ==
    /\ dpc[d] = "binding"
    /\ inUse => (isWindows \/ files.sock # 0)
    /\ IF isWindows /\ inUse /\ attempt[d] < MaxAttempt
       THEN /\ attempt' = [attempt EXCEPT ![d] = @ + 1]
            /\ lastExit' = NoExit
            /\ UNCHANGED << files, dpc, bindFailed, hasStream, listening >>
       ELSE /\ files' = cleanupSocket(cleanupSocket(files, isWindows), isWindows)
            /\ bindFailed' = [bindFailed EXCEPT ![d] = TRUE]
            /\ lastExit' = ExitBy("bindFailure", files)
            /\ ProcessGone(d)
    /\ UNCHANGED << isWindows, boundOnce >>
    /\ probe' = NoProbe
    /\ UNCHANGED << daemonVars, guardVars, portVars, errorVars >>

\* The 'listening' callback: the port file (TCP) and the PID file are written.
ListeningCallback(d) ==
    /\ dpc[d] = "bound"
    /\ files' = FilesOnListening(d, files, isWindows, PortOf(attempt[d]))
    /\ dpc' = [dpc EXCEPT ![d] = "running"]
    /\ UNCHANGED << isWindows, attempt, hasStream, listening, boundOnce, bindFailed >>
    /\ probe' = NoProbe
    /\ lastExit' = NoExit
    /\ UNCHANGED << daemonVars, guardVars, portVars, errorVars >>

\* A termination signal: `shutdown` up to its first await.
LifeSignal(d) ==
    /\ dpc[d] = "running"
    /\ dpc' = [dpc EXCEPT ![d] = IF hasStream[d] THEN "sdStream" ELSE "sdBrowser"]
    /\ UNCHANGED << isWindows, files, attempt, hasStream, listening, boundOnce,
                    bindFailed >>
    /\ probe' = NoProbe
    /\ lastExit' = NoExit
    /\ UNCHANGED << daemonVars, guardVars, portVars, errorVars >>

\* `await streamServer.stop()` settles: the stream-port file is removed.
SdStreamSettle(d) ==
    /\ dpc[d] = "sdStream"
    /\ hasStream' = [hasStream EXCEPT ![d] = FALSE]
    /\ files' = [files EXCEPT !.stream = 0]
    /\ dpc' = [dpc EXCEPT ![d] = "sdBrowser"]
    /\ UNCHANGED << isWindows, attempt, listening, boundOnce, bindFailed >>
    /\ probe' = NoProbe
    /\ lastExit' = NoExit
    /\ UNCHANGED << daemonVars, guardVars, portVars, errorVars >>

\* `await browser.close()` settles: server.close(); cleanupSocket(); process.exit(0).
SdBrowserSettle(d) ==
    /\ dpc[d] = "sdBrowser"
    /\ files' = OnExit(cleanupSocket(files, isWindows), isWindows)
    /\ lastExit' = ExitBy("signal", files)
    /\ ProcessGone(d)
    /\ UNCHANGED << isWindows, boundOnce, bindFailed >>
    /\ probe' = NoProbe
    /\ UNCHANGED << daemonVars, guardVars, portVars, errorVars >>

\* The handlers installed once the bind has resolved, which end the process
\* on their own: a server runtime error, an uncaught exception, an unhandled
\* rejection, and the teardown timer of 'close' (set only while no shutdown
\* is under way).  Each runs cleanupSocket() and process.exit.
FatalPaths == {"serverError", "uncaughtException", "unhandledRejection", "close"}

FatalExit(d, path) ==
    /\ dpc[d] \in {"running", "sdStream", "sdBrowser"}
    /\ path = "close" => dpc[d] = "running"
    /\ files' = OnExit(cleanupSocket(files, isWindows), isWindows)
    /\ lastExit' = ExitBy(path, files)
    /\ ProcessGone(d)
    /\ UNCHANGED << isWindows, boundOnce, bindFailed >>
    /\ probe' = NoProbe
    /\ UNCHANGED << daemonVars, guardVars, portVars, errorVars >>

\* The process is killed with no handler of its own running (SIGKILL, power
\* loss, a signal before the handlers are installed): the files stay.
Crash(d) ==
    /\ dpc[d] \notin {"init", "dead"}
    /\ ProcessGone(d)
    /\ UNCHANGED << isWindows, files, boundOnce, bindFailed >>
    /\ probe' = NoProbe
    /\ lastExit' = NoExit
    /\ UNCHANGED << daemonVars, guardVars, portVars, errorVars >>

\* A client calls isDaemonRunning().
Probe ==
    LET r == isDaemonRunning(files, isWindows) IN
    /\ files' = r.files
    /\ probe' = [result |-> IF r.running THEN "running" ELSE "notRunning",
                 left |-> { n \in FileNames : r.files[n] # 0 }]
    /\ lastExit' = NoExit
    /\ UNCHANGED << isWindows, dpc, attempt, hasStream, listening, boundOnce,
                    bindFailed >>
    /\ UNCHANGED << daemonVars, guardVars, portVars, errorVars >>

LifeNext ==
    \/ \E d \in Daemons, withStream \in BOOLEAN : StartDaemon(d, withStream)
    \/ \E d \in Daemons, ok \in BOOLEAN : StreamStartSettle(d, ok)
    \/ \E d \in Daemons : BindOk(d)
    \/ \E d \in Daemons, inUse \in BOOLEAN : BindError(d, inUse)
    \/ \E d \in Daemons : ListeningCallback(d)
    \/ \E d \in Daemons : LifeSignal(d)
    \/ \E d \in Daemons : SdStreamSettle(d)
    \/ \E d \in Daemons : SdBrowserSettle(d)
    \/ \E d \in Daemons, path \in FatalPaths : FatalExit(d, path)
    \/ \E d \in Daemons : Crash(d)
    \/ Probe

\* The daemon of Spec is a bound, running daemon; the files are not its subject.
LifeFixed ==
    /\ isWindows = FALSE
    /\ files = NoFiles
    /\ dpc = [d \in Daemons |-> "init"]
    /\ attempt = [d \in Daemons |-> 0]
    /\ hasStream = [d \in Daemons |-> FALSE]
    /\ listening = [d \in Daemons |-> FALSE]
    /\ boundOnce = [d \in Daemons |-> FALSE]
    /\ bindFailed = [d \in Daemons |-> FALSE]
    /\ probe = NoProbe
    /\ lastExit = NoExit

\* The connection handler is not the subject of SpecLifecycle.
DaemonFixed ==
    /\ buffer = [c \in Conns |-> <<>>]
    /\ httpChecked = [c \in Conns |-> FALSE]
    /\ destroyed = [c \in Conns |-> FALSE]
    /\ received = [c \in Conns |-> <<>>]
    /\ out = [c \in Conns |-> <<>>]
    /\ fed = [c \in Conns |-> <<>>]
    /\ tasks = <<>>
    /\ launched = FALSE
    /\ launchCalls = 0
    /\ dispatched = {}
    /\ shuttingDown = FALSE
    /\ closeTimer = FALSE
    /\ sdPc = "idle"
    /\ streamServer = FALSE
    /\ exited = FALSE
    /\ reads = 0

\* ------------------------------------------------------------ the TCP port
\* The character codes (charCodeAt) of the session names: "g" and "u".
SessionChars == {103, 117}

SessionNames == UNION { [1 .. n -> SessionChars] : n \in 1 .. MaxNameLen }

\* A 32-bit integer as its two 16-bit halves, [hi, lo], each in 0 .. 65535.
\* hash = (hash << 5) - hash + session.charCodeAt(i); hash |= 0;
\* (hash << 5) - hash is 31 * hash modulo 2^32.
HashStep(h, code) ==
    LET lo == 31 * h.lo + code
        hi == 31 * h.hi + (lo \div 65536)
    IN  [hi |-> hi % 65536, lo |-> lo % 65536]

\* for (let i = 0; i < session.length; i++) { ... }, from index i on.
RECURSIVE HashLoop(_, _, _)
HashLoop(h, session, i) ==
    IF i > Len(session) THEN h ELSE HashLoop(HashStep(h, session[i]), session, i + 1)

\* The value of the halves as a signed 32-bit integer (the result of `| 0`).
ToInt32(h) ==
    IF h.hi >= 32768 THEN (h.hi - 65536) * 65536 + h.lo ELSE h.hi * 65536 + h.lo

\* Math.abs(v) % m.  Math.abs(-2^31) is 2^31, one more than the largest
\* 32-bit integer, so the negative case is computed from -(v + 1).
AbsMod(v, m) == IF v >= 0 THEN v % m ELSE (((-(v + 1)) % m) + 1) % m

\* getPortForSession
getPortForSession(session) ==
    49152 + AbsMod(ToInt32(HashLoop([hi |-> 0, lo |-> 0], session, 1)), 16383)

PortInit ==
    /\ currentSession \in SessionNames
    /\ portPc = "start"
    /\ basePort = 0
    /\ tryingPort = 0
    /\ tryAttempt = 0
    /\ portFile = 0
    /\ clientPort = 0

\* basePort = getPortForSession(currentSession); tryPort(basePort, 0).
TryBasePort ==
    /\ portPc = "start"
    /\ basePort' = getPortForSession(currentSession)
    /\ tryingPort' = getPortForSession(currentSession)
    /\ tryAttempt' = 0
    /\ portPc' = "trying"
    /\ UNCHANGED << currentSession, portFile, clientPort >>
    /\ UNCHANGED << daemonVars, lifeVars, guardVars, errorVars >>

\* server.listen(port, ...) reports an error.  EADDRINUSE with attempt < 4:
\* tryPort(port + 1, attempt + 1); otherwise the bind is rejected.
ListenError(inUse) ==
    /\ portPc = "trying" /\ tryingPort <= 65535
    /\ IF inUse /\ tryAttempt < MaxAttempt
       THEN /\ tryingPort' = tryingPort + 1
            /\ tryAttempt' = tryAttempt + 1
            /\ UNCHANGED portPc
       ELSE /\ portPc' = "failed"
            /\ UNCHANGED << tryingPort, tryAttempt >>
    /\ UNCHANGED << currentSession, basePort, portFile, clientPort >>
    /\ UNCHANGED << daemonVars, lifeVars, guardVars, errorVars >>

\* server.listen(port, ...) is given a port above 65535: it throws.
ListenThrows ==
    /\ portPc = "trying" /\ tryingPort > 65535
    /\ portPc' = "failed"
    /\ UNCHANGED << currentSession, basePort, tryingPort, tryAttempt, portFile,
                    clientPort >>
    /\ UNCHANGED << daemonVars, lifeVars, guardVars, errorVars >>

\* server.listen(port, ...) succeeds: the 'listening' callback writes the
\* port the server holds to the port file, then the PID file.
ListenOk ==
    /\ portPc = "trying" /\ tryingPort <= 65535
    /\ portPc' = "listening"
    /\ portFile' = tryingPort
    /\ UNCHANGED << currentSession, basePort, tryingPort, tryAttempt, clientPort >>
    /\ UNCHANGED << daemonVars, lifeVars, guardVars, errorVars >>

\* A client calls getConnectionInfo on the TCP platform.
GetConnectionInfo ==
    /\ clientPort = 0
    /\ clientPort' = getPortForSession(currentSession)
    /\ UNCHANGED << currentSession, portPc, basePort, tryingPort, tryAttempt,
                    portFile >>
    /\ UNCHANGED << daemonVars, lifeVars, guardVars, errorVars >>

PortNext ==
    \/ TryBasePort
    \/ \E inUse \in BOOLEAN : ListenError(inUse)
    \/ ListenThrows
    \/ ListenOk
    \/ GetConnectionInfo

\* The port is not the subject of the other specifications.
PortFixed ==
    /\ currentSession = <<>>
    /\ portPc = "start"
    /\ basePort = 0
    /\ tryingPort = 0
    /\ tryAttempt = 0
    /\ portFile = 0
    /\ clientPort = 0

\* ------------------------------------------------- the failure translator
\* The fragments a raw failure text is made of.
Fragments ==
    {"Timeout exceeded", "waiting for", "intercepts pointer events", "cookie",
     "net::ERR"}

RawErrors == UNION { [1 .. n -> Fragments] : n \in 0 .. MaxFragments }

\* message.includes(fragment)
Includes(text, fragment) == \E i \in DOMAIN text : text[i] = fragment

\* The phrases of the translated messages.
BlockedMessage(text) ==
    << "blocked by another element", "modal or overlay" >>
    \o (IF Includes(text, "cookie") THEN << "cookie banners" >> ELSE <<>>)

\* toAIFriendlyError: the category and the message of the translation.  The
\* interception signature is looked for first; unmatched text is kept as is.
toAIFriendlyErrorTimeoutFirst(text) ==
    IF Includes(text, "Timeout exceeded") /\ Includes(text, "waiting for")
    THEN [category |-> "NotFoundOrNotVisible", message |-> << "not found" >>]
    ELSE IF Includes(text, "Timeout exceeded")
    THEN [category |-> "Timeout", message |-> << "timed out" >>]
    ELSE IF Includes(text, "intercepts pointer events")
    THEN [category |-> "BlockedByOverlay", message |-> BlockedMessage(text)]
    ELSE [category |-> "EngineFailure", message |-> text]
toAIFriendlyError(text) ==
    IF Includes(text, "intercepts pointer events")
    THEN [category |-> "BlockedByOverlay", message |-> BlockedMessage(text)]
    ELSE IF Includes(text, "Timeout exceeded") /\ Includes(text, "waiting for")
    THEN [category |-> "NotFoundOrNotVisible", message |-> << "not found" >>]
    ELSE IF Includes(text, "Timeout exceeded")
    THEN [category |-> "Timeout", message |-> << "timed out" >>]
    ELSE [category |-> "EngineFailure", message |-> text]

\* Nothing has been translated yet.
NoError == [category |-> "none", message |-> <<>>]

ErrorInit ==
    /\ rawError \in RawErrors
    /\ friendly = NoError

\* An engine call fails with rawError and the executor translates it.
Translate ==
    /\ friendly = NoError
    /\ friendly' = toAIFriendlyError(rawError)
    /\ UNCHANGED rawError
    /\ UNCHANGED << daemonVars, lifeVars, guardVars, portVars >>

ErrorNext == Translate

\* The translator is not the subject of the other specifications.
ErrorFixed ==
    /\ rawError = <<>>
    /\ friendly = NoError

\* --------------------------------------------------------- the focus guard
\* The commands of the executor, by their effect on the guard: click and
\* double-click (focus-mutating), the full-page snapshot, the selector-scoped
\* snapshot, and any command that does not move focus.
GuardCmds == {"click", "dblclick", "snapshot", "snapshotSel", "other"}

FocusMutating(cmd) == cmd \in {"click", "dblclick"}

\* Where a command starts: focus-mutating commands and the full-page snapshot
\* arm the guard first; the others go straight to their operation.
FirstStepSelectorArms(cmd) ==
    IF FocusMutating(cmd) \/ cmd \in {"snapshot", "snapshotSel"} THEN "arm" ELSE "op"
FirstStep(cmd) ==
    IF FocusMutating(cmd) \/ cmd = "snapshot" THEN "arm" ELSE "op"

\* What follows the operation.  A focus-mutating command clears the guard
\* only when its operation threw; the full-page snapshot clears it whether
\* the privileged capability returned or threw; the others have no guard call.
AfterOpAlwaysClears(cmd, ok) ==
    IF FocusMutating(cmd) \/ cmd = "snapshot" THEN "clear" ELSE "done"
AfterOpNoCleanupOnThrow(cmd, ok) ==
    IF (FocusMutating(cmd) /\ ~ok) \/ (cmd = "snapshot" /\ ok) THEN "clear" ELSE "done"
AfterOp(cmd, ok) ==
    IF (FocusMutating(cmd) /\ ~ok) \/ cmd = "snapshot" THEN "clear" ELSE "done"

\* Whether the Response reports success.  A full-page snapshot whose
\* privileged capability threw falls back to the root snapshot and succeeds.
ReportsSuccess(cmd, ok) == ok \/ cmd = "snapshot"

IdleSlot ==
    [cmd |-> "none", pc |-> "idle", arms |-> 0, clears |-> 0, ops |-> 0,
     opOk |-> FALSE, success |-> FALSE, sawLeft |-> FALSE, guardAtEnd |-> "idle"]

GuardInit ==
    /\ guard = "idle"
    /\ leftArmed = FALSE
    /\ slot = [i \in Slots |-> IdleSlot]
    /\ issued = 0

\* executeCommand is called with a command.
Begin(i, cmd) ==
    /\ slot[i].pc \in {"idle", "done"}
    /\ issued < MaxCmds
    /\ issued' = issued + 1
    /\ slot' = [slot EXCEPT ![i] =
                   [IdleSlot EXCEPT !.cmd = cmd, !.pc = FirstStep(cmd),
                                    !.sawLeft = leftArmed]]
    /\ UNCHANGED << guard, leftArmed >>
    /\ UNCHANGED << daemonVars, lifeVars, portVars, errorVars >>

\* The arm call settles (armSnapshotFocusGuard, or the snapshot builder's
\* first page.evaluate) and the operation is invoked.
Arm(i) ==
    /\ slot[i].pc = "arm"
    /\ guard' = "armed"
    /\ slot' = [slot EXCEPT ![i].arms = @ + 1, ![i].pc = "op"]
    /\ UNCHANGED << leftArmed, issued >>
    /\ UNCHANGED << daemonVars, lifeVars, portVars, errorVars >>

\* The operation settles: the click or double-click, the privileged
\* snapshot capability, the selector's root snapshot, or any other call.
OpSettle(i, ok) ==
    /\ slot[i].pc = "op"
    /\ LET cmd == slot[i].cmd
           next == AfterOp(cmd, ok)
       IN  /\ slot' = [slot EXCEPT ![i].ops = @ + 1, ![i].opOk = ok, ![i].pc = next,
                                   ![i].success = ReportsSuccess(cmd, ok),
                                   ![i].guardAtEnd = guard]
           /\ leftArmed' = (leftArmed \/ (FocusMutating(cmd) /\ ok /\ guard = "armed"))
    /\ UNCHANGED << guard, issued >>
    /\ UNCHANGED << daemonVars, lifeVars, portVars, errorVars >>

\* The clear call settles (clearSnapshotFocusGuard, or the snapshot
\* builder's second page.evaluate) and the command returns.
Clear(i) ==
    /\ slot[i].pc = "clear"
    /\ guard' = "idle"
    /\ leftArmed' = FALSE
    /\ slot' = [slot EXCEPT ![i].clears = @ + 1, ![i].pc = "done",
                            ![i].guardAtEnd = "idle"]
    /\ UNCHANGED issued
    /\ UNCHANGED << daemonVars, lifeVars, portVars, errorVars >>

GuardNext ==
    \/ \E i \in Slots, cmd \in GuardCmds : Begin(i, cmd)
    \/ \E i \in Slots : Arm(i)
    \/ \E i \in Slots, ok \in BOOLEAN : OpSettle(i, ok)
    \/ \E i \in Slots : Clear(i)

\* No command is being executed: the guard is not the subject of Spec and
\* SpecLifecycle.
GuardFixed ==
    /\ guard = "idle"
    /\ leftArmed = FALSE
    /\ slot = [i \in Slots |-> IdleSlot]
    /\ issued = 0

\* --------------------------------------------------------- specifications
Init == DaemonInit /\ LifeFixed /\ GuardFixed /\ PortFixed /\ ErrorFixed

Next == DaemonNext

Spec == Init /\ [][Next]_vars

InitLifecycle == LifeInit /\ DaemonFixed /\ GuardFixed /\ PortFixed /\ ErrorFixed

NextLifecycle == LifeNext

SpecLifecycle == InitLifecycle /\ [][NextLifecycle]_vars

InitGuard == GuardInit /\ DaemonFixed /\ LifeFixed /\ PortFixed /\ ErrorFixed

NextGuard == GuardNext

SpecGuard == InitGuard /\ [][NextGuard]_vars

InitPort == PortInit /\ DaemonFixed /\ LifeFixed /\ GuardFixed /\ ErrorFixed

NextPort == PortNext

SpecPort == InitPort /\ [][NextPort]_vars

InitError == ErrorInit /\ DaemonFixed /\ LifeFixed /\ GuardFixed /\ PortFixed

NextError == ErrorNext

SpecError == InitError /\ [][NextError]_vars

\* The daemon of SpecShutdown has bound and its 'listening' callback has run:
\* its PID file and its port file or socket exist, and so does the
\* stream-port file when the stream server started.  The process itself is
\* described by the variables of the connection handler.
LifeRunning ==
    /\ isWindows \in BOOLEAN
    /\ files = FilesOnListening(1,
                   [NoFiles EXCEPT !.stream = IF streamServer THEN 1 ELSE 0,
                                   !.sock = IF isWindows THEN 0 ELSE 1],
                   isWindows, PortOf(0))
    /\ dpc = [d \in Daemons |-> "init"]
    /\ attempt = [d \in Daemons |-> 0]
    /\ hasStream = [d \in Daemons |-> FALSE]
    /\ listening = [d \in Daemons |-> FALSE]
    /\ boundOnce = [d \in Daemons |-> FALSE]
    /\ bindFailed = [d \in Daemons |-> FALSE]
    /\ probe = NoProbe
    /\ lastExit = NoExit

\* The reads of SpecShutdown: one client sends a command that needs the
\* browser, or a 'close' followed by such a command.
ShutdownChunks == { << "1", "k", LF >>, << "2", "c", LF, "1", "k", LF >> }

ShutdownConns == { c \in Conns : \A d \in Conns : c <= d }

InitShutdown == DaemonInit /\ LifeRunning /\ GuardFixed /\ PortFixed /\ ErrorFixed

NextShutdown ==
    \/ \E c \in ShutdownConns, chunk \in ShutdownChunks : OnData(c, chunk)
    \/ \E i \in 1 .. MaxReads, ok \in BOOLEAN : LaunchSettle(i, ok)
    \/ \E i \in 1 .. MaxReads, ok \in BOOLEAN : ExecSettle(i, ok)
    \/ CloseTimerFire
    \/ Signal
    \/ \E ok \in BOOLEAN : StreamStopSettle(ok)
    \/ \E ok \in BOOLEAN : BrowserCloseSettle(ok)

\* The promises `shutdown` awaits settle: streamServer.stop() and
\* browser.close() each resolve or reject in the end.
SpecShutdown ==
    /\ InitShutdown
    /\ [][NextShutdown]_vars
    /\ WF_vars(\E ok \in BOOLEAN : StreamStopSettle(ok))
    /\ WF_vars(\E ok \in BOOLEAN : BrowserCloseSettle(ok))

\* ------------------------------------------- claims on the connection handler
\* The complete lines of a stream: the text between line breaks, without the
\* unterminated tail.
RECURSIVE CompleteLines(_)
CompleteLines(s) ==
    IF ~HasNewline(s)
    THEN <<>>
    ELSE << SubSeq(s, 1, IndexOfNewline(s) - 1) >>
         \o CompleteLines(SubSeq(s, IndexOfNewline(s) + 1, Len(s)))

NonBlankLines(s) == SelectSeq(CompleteLines(s), LAMBDA l : Trim(l) # <<>>)

TasksOf(c) == { i \in DOMAIN tasks : tasks[i].conn = c }

\* The ids the daemon uses when it has no command id at hand.
SentinelIds == {"unknown", "error"}

\* C1: every complete non-blank line received on a connection that the HTTP
\* filter did not terminate has exactly one Response on that connection.
\* Stated on the runs the 'close' teardown ends (the timer has fired and the
\* process has exited), where nothing more will be written.
C1_OneResponsePerLine ==
    (exited /\ sdPc = "idle") =>
        \A c \in Conns :
            ~destroyed[c] => Len(out[c]) = Len(NonBlankLines(received[c]))

\* C2: every Response carries the id of the line that triggered it; a
\* sentinel id appears only when that line's id could not be recovered.
C2_ResponseIdMatches ==
    \A c \in Conns : \A i \in DOMAIN out[c] :
        LET r == out[c][i]
            pr == parseCommand(r.line)
        IN  IF pr.id # NoId THEN r.id = pr.id ELSE r.id \in SentinelIds

\* C3: a connection whose first-line content is an HTTP request line is
\* terminated, gets no Response and has no command dispatched, however the
\* bytes were split across reads.
C3_HttpRequestSilenced ==
    \A c \in Conns :
        IsHttpRequest(received[c]) =>
            /\ destroyed[c]
            /\ out[c] = <<>>
            /\ \A x \in dispatched : x.conn # c

\* C4: on one connection at most one command is being processed at a time:
\* no second invocation of the handler is parked on an await while a first
\* one is.
C4_OneCommandAtATime ==
    \A c \in Conns : Cardinality(TasksOf(c)) <= 1

\* ------------------------------------------------ claims on the session files
\* C5: the PID file holds a daemon's pid only if that daemon's listener has
\* bound; a daemon whose bind failed has no PID file of its own.
C5_PidOnlyAfterBind ==
    \A d \in Daemons :
        /\ files.pid = d => boundOnce[d]
        /\ bindFailed[d] => files.pid # d

\* A daemon's bind has failed, and another daemon has bound and written its
\* PID file.
C5_Witness ==
    \E d, e \in Daemons : bindFailed[d] /\ files.pid = e /\ boundOnce[e]

\* C10: when isDaemonRunning reports "not running", none of the session's
\* files is left when it returns.
C10_NotRunningLeavesNoFile ==
    probe.result = "notRunning" => probe.left = {}

\* ------------------------------------------------- claims on the focus guard
\* The step is the return of slot i's command through its clear call.
ClearedBy(i) == slot[i].pc = "clear" /\ slot'[i].pc = "done"

\* C6: a click or double-click arms the guard exactly once, before its
\* operation is invoked; when the operation succeeds the clear call is never
\* made and the Response reports success; when it fails the clear call is
\* made exactly once and the Response reports failure.
C6_ClickGuardLifecycle ==
    \A i \in Slots :
        FocusMutating(slot[i].cmd) =>
            /\ slot[i].pc = "arm" => (slot[i].arms = 0 /\ slot[i].ops = 0)
            /\ slot[i].pc \in {"op", "clear", "done"} => slot[i].arms = 1
            /\ slot[i].pc \in {"arm", "op"} => slot[i].clears = 0
            /\ (slot[i].pc = "done" /\ slot[i].opOk) =>
                   (slot[i].clears = 0 /\ slot[i].success)
            /\ (slot[i].pc = "done" /\ ~slot[i].opOk) =>
                   (slot[i].clears = 1 /\ ~slot[i].success)

\* A click has returned after its operation succeeded, and a double-click
\* has returned after its operation failed.
C6_Witness ==
    \E i, j \in Slots :
        /\ slot[i].cmd = "click" /\ slot[i].pc = "done" /\ slot[i].opOk
        /\ slot[j].cmd = "dblclick" /\ slot[j].pc = "done" /\ ~slot[j].opOk

\* C7: a full-page snapshot makes exactly two guard calls, the arm before the
\* privileged capability and the clear after it, whether the capability
\* returns or throws, and the guard is idle when the call returns.
C7_FullSnapshotGuardCalls ==
    \A i \in Slots :
        slot[i].cmd = "snapshot" =>
            /\ slot[i].pc = "arm" => (slot[i].arms = 0 /\ slot[i].ops = 0)
            /\ slot[i].pc = "op" => (slot[i].arms = 1 /\ slot[i].clears = 0)
            /\ slot[i].pc = "clear" =>
                   (slot[i].arms = 1 /\ slot[i].ops = 1 /\ slot[i].clears = 0)
            /\ slot[i].pc = "done" =>
                   /\ slot[i].arms + slot[i].clears = 2
                   /\ slot[i].arms = 1 /\ slot[i].ops = 1
                   /\ slot[i].guardAtEnd = "idle"

\* A full-page snapshot has returned after its privileged capability threw,
\* and another after it returned.
C7_Witness ==
    \E i, j \in Slots :
        /\ slot[i].cmd = "snapshot" /\ slot[i].pc = "done" /\ ~slot[i].opOk
        /\ slot[j].cmd = "snapshot" /\ slot[j].pc = "done" /\ slot[j].opOk

\* C8: a selector-scoped snapshot makes no arm and no clear call, and no step
\* of it changes the guard, whether the guard is idle or armed.
C8_SelectorSnapshotNoGuard ==
    /\ [](\A i \in Slots :
             slot[i].cmd = "snapshotSel" => (slot[i].arms = 0 /\ slot[i].clears = 0))
    /\ [][\A i \in Slots :
             (slot'[i].cmd = "snapshotSel" /\ slot'[i] # slot[i]) => guard' = guard]_vars

\* A selector-scoped snapshot that began with the guard left armed by an
\* earlier click has returned, and the guard is still armed.
C8_Witness ==
    \E i \in Slots :
        /\ slot[i].cmd = "snapshotSel" /\ slot[i].pc = "done" /\ slot[i].sawLeft
        /\ leftArmed /\ guard = "armed"

\* C9 as stated: a guard that a successful focus-mutating command left armed
\* is cleared by no later command but a full-page snapshot (later: begun
\* after the guard was left armed).
C9_OnlySnapshotClears ==
    [][(leftArmed /\ guard' = "idle") =>
           \E i \in Slots :
               ClearedBy(i) /\ (slot[i].sawLeft => slot[i].cmd = "snapshot")]_vars

\* C9 as amended: a guard that a successful focus-mutating command left armed
\* is cleared only by a full-page snapshot or by a later click or
\* double-click whose operation failed; a selector-scoped snapshot, a command
\* that does not move focus and a click that succeeds never clear it.
C9_ClearedBySnapshotOrFailedClick ==
    [][(leftArmed /\ guard' = "idle") =>
           \E i \in Slots :
               /\ ClearedBy(i)
               /\ \/ slot[i].cmd = "snapshot"
                  \/ FocusMutating(slot[i].cmd) /\ ~slot[i].opOk]_vars

\* A command that does not move focus, begun with the guard left armed by
\* an earlier click, has returned and the guard is still armed.
C9_Witness ==
    \E i \in Slots :
        /\ slot[i].cmd = "other" /\ slot[i].pc = "done" /\ slot[i].sawLeft
        /\ leftArmed /\ guard = "armed"

\* ------------------------------------ claims on 'close', launch and failures
\* C11: the Response to a 'close' command is written before any teardown
\* step: when the process has exited, no 'close' command is still waiting
\* for its Response.
C11_CloseAnsweredBeforeTeardown ==
    exited => \A i \in DOMAIN tasks : tasks[i].action # "close"

\* The Responses among outc that answer the line at position s.
ResponsesTo(outc, s) == { k \in DOMAIN outc : outc[k].seq = s }

\* The command at position s of connection c was handed to executeCommand.
WasDispatched(c, s) == \E x \in dispatched : x.conn = c /\ x.seq = s

\* The step ends the invocation of the command at position s of connection c
\* while it awaits the auto-launch: browser.launch has rejected.
LaunchFailed(c, s) ==
    /\ \E i \in DOMAIN tasks :
           tasks[i].conn = c /\ tasks[i].seq = s /\ tasks[i].at = "launch"
    /\ ~\E j \in DOMAIN tasks' : tasks'[j].conn = c /\ tasks'[j].seq = s

\* The step parks a new invocation of connection c's handler: the line loop
\* went on to a later line.
LoopWentOn(c) ==
    \E j \in DOMAIN tasks' : tasks'[j].conn = c /\ tasks'[j].seq > Len(fed[c])

\* C13: a command other than launch and close is handed to the executor only
\* while a browser session is active, the daemon launching one first when
\* there is none; when that launch fails the command is never handed to the
\* executor, exactly one Response, a failure, is written for it, and the
\* daemon and the connection go on with the lines that follow.
C13_AutoLaunchFailure ==
    /\ [](\A c \in Conns : \A k \in DOMAIN out[c] :
             out[c][k].id = CatchAllId(out[c][k]) =>
                 /\ ~out[c][k].success
                 /\ Cardinality(ResponsesTo(out[c], out[c][k].seq)) = 1
                 /\ ~WasDispatched(c, out[c][k].seq))
    /\ [](\A i \in DOMAIN tasks :
             tasks[i].at = "launch" =>
                 /\ ~WasDispatched(tasks[i].conn, tasks[i].seq)
                 /\ ResponsesTo(out[tasks[i].conn], tasks[i].seq) = {})
    /\ [][/\ \A x \in dispatched' \ dispatched :
                parseCommand(x.line).action \notin {"launch", "close"} => launched'
          /\ \A c \in Conns : \A s \in 1 .. Len(fed[c]) :
                LaunchFailed(c, s) =>
                    /\ ResponsesTo(out[c], s) = {}
                    /\ Cardinality(ResponsesTo(out'[c], s)) = 1
                    /\ \A k \in ResponsesTo(out'[c], s) : ~out'[c][k].success
                    /\ \A x \in dispatched' : ~(x.conn = c /\ x.seq = s)
                    /\ ~exited' /\ ~destroyed'[c]
                    /\ HasNewline(buffer'[c]) => LoopWentOn(c)]_vars

\* The auto-launch for a command failed and was answered with a failure, and
\* a later command on the same connection was launched for, executed and
\* answered with success.
C13_Witness ==
    \E c \in Conns : \E k, m \in DOMAIN out[c] :
        /\ out[c][k].id = CatchAllId(out[c][k]) /\ ~out[c][k].success
        /\ out[c][m].seq > out[c][k].seq /\ out[c][m].success
        /\ WasDispatched(c, out[c][m].seq)

\* C14: at most one browser launch is in progress at a time, and none is
\* while a browser session is active.
C14_OneLaunchAtATime ==
    /\ Cardinality({ i \in DOMAIN tasks : tasks[i].at = "launch" }) <= 1
    /\ launched => \A i \in DOMAIN tasks : tasks[i].at # "launch"

\* C15: the HTTP filter is the only thing that terminates a connection, and
\* a step that writes a failure Response (for a parse failure, an unknown
\* action, an executor failure or an auto-launch failure) leaves the
\* connection open and goes on with the lines that follow.
C15_FailureKeepsConnection ==
    [][\A c \in Conns :
          /\ (destroyed'[c] /\ ~destroyed[c]) =>
                 (~httpChecked[c] /\ IsHttpRequest(buffer'[c]))
          /\ (\E k \in DOMAIN out'[c] : k > Len(out[c]) /\ ~out'[c][k].success) =>
                 /\ ~destroyed'[c]
                 /\ HasNewline(buffer'[c]) => LoopWentOn(c)]_vars

\* C16: while an invocation of the handler is suspended on an engine call,
\* every other open connection can deliver a read to its handler, and the
\* engine calls of the other connections' commands can settle and be
\* answered.  Right after the first command is parked, every other connection
\* can in fact deliver any chunk; with two commands parked after two reads,
\* the call of either one can settle while the other stays suspended.
C16_StallIsLocal ==
    \A i \in DOMAIN tasks :
        ~exited =>
            /\ \A d \in Conns \ {tasks[i].conn} :
                   /\ ~destroyed[d] => CanHandleData(d)
                   /\ reads = 1 => \A chunk \in Chunks : ENABLED OnData(d, chunk)
            /\ \A j \in DOMAIN tasks :
                   tasks[j].conn # tasks[i].conn =>
                       /\ CanSettle(j, "launch") \/ CanSettle(j, "exec")
                       /\ reads = 2 =>
                              ENABLED (\E ok \in BOOLEAN :
                                          LaunchSettle(j, ok) \/ ExecSettle(j, ok))

\* A command is suspended on a browser launch that has not settled, and a
\* command of another connection has meanwhile been launched for, executed
\* and answered with success.
C16_Witness ==
    /\ ~exited
    /\ \E i \in DOMAIN tasks :
           /\ tasks[i].at = "launch"
           /\ \E d \in Conns \ {tasks[i].conn} : \E k \in DOMAIN out[d] :
                  out[d][k].success /\ WasDispatched(d, out[d][k].seq)

\* The unterminated tail of a stream: the text after its last line break.
RECURSIVE UnterminatedTail(_)
UnterminatedTail(s) ==
    IF ~HasNewline(s) THEN s
    ELSE UnterminatedTail(SubSeq(s, IndexOfNewline(s) + 1, Len(s)))

IsPrefix(a, b) == Len(a) <= Len(b) /\ SubSeq(b, 1, Len(a)) = a

\* C20: on a connection the HTTP filter did not terminate, the lines fed to
\* the codec are the non-blank complete lines of the stream, in stream
\* order and each once, however the stream was split into reads: they are
\* always a prefix of them, and once no invocation of the handler is
\* suspended they are all of them and the buffer holds the unterminated tail.
C20_FramingIndependentOfReads ==
    \A c \in Conns :
        ~destroyed[c] =>
            /\ IsPrefix(fed[c], NonBlankLines(received[c]))
            /\ TasksOf(c) = {} =>
                   /\ fed[c] = NonBlankLines(received[c])
                   /\ buffer[c] = UnterminatedTail(received[c])

C17_FilesOnlyAfterBind ==
    [][\A n \in {"pid", "port", "stream"} :
          (files'[n] # 0 /\ files'[n] # files[n]) =>
              \E d \in Daemons : dpc'[d] # dpc[d] /\ boundOnce[d]]_vars

\* ------------------------------------------------- claims on the TCP port
\* C18: every port tryPort asks for lies in 49152 .. 65535, and
\* getPortForSession gives the daemon and its clients the same port for the
\* same session name.
C18_PortsInDynamicRange ==
    /\ portPc = "trying" => tryingPort \in 49152 .. 65535
    /\ (basePort # 0 /\ clientPort # 0) => basePort = clientPort

\* --------------------------------------- claims on the failure translator
\* message.includes(phrase), on the phrases of a translated message.
MessageContains(message, phrase) == \E i \in DOMAIN message : message[i] = phrase

\* C19: a failure whose text contains 'intercepts pointer events' is
\* translated as BlockedByOverlay, whether or not the text also mentions a
\* timeout: the message does not say 'not found', says the element is
\* blocked by another element, names a modal or overlay, and suggests
\* dismissing cookie banners when the text mentions 'cookie'.
C19_InterceptIsBlockedByOverlay ==
    (friendly # NoError /\ Includes(rawError, "intercepts pointer events")) =>
        /\ friendly.category = "BlockedByOverlay"
        /\ ~MessageContains(friendly.message, "not found")
        /\ MessageContains(friendly.message, "blocked by another element")
        /\ MessageContains(friendly.message, "modal or overlay")
        /\ Includes(rawError, "cookie") =>
               MessageContains(friendly.message, "cookie banners")

\* A failure text that mentions a timeout, the wait for the element, the
\* interception and a cookie element has been translated.
C19_Witness ==
    /\ friendly # NoError
    /\ Includes(rawError, "Timeout exceeded")
    /\ Includes(rawError, "intercepts pointer events")
    /\ Includes(rawError, "cookie")

\* --------------------------------------- claims on a second daemon, shutdown
\* Daemon e is alive, bound, and has written the session's PID file.
LiveBound(e) == dpc[e] = "running" /\ listening[e] /\ files.pid = e

\* The marker clients reach the daemon by: the port file (TCP) or the socket.
Marker(win) == IF win THEN "port" ELSE "sock"

\* C21: a startDaemon call made while another daemon of the session is alive
\* and bound leaves that daemon's PID file and its socket / port marker in
\* place, and isDaemonRunning still reports the session as running.
C21_StartKeepsLiveDaemonFiles ==
    [][\A d, e \in Daemons :
          (dpc[d] = "init" /\ dpc'[d] # "init" /\ LiveBound(e)) =>
              /\ files'.pid = e
              /\ files'[Marker(isWindows)] = files[Marker(isWindows)]
              /\ isDaemonRunning(files', isWindows).running]_vars

\* The Response k of connection c answers a 'close' command with success.
AnswersClose(c, k) ==
    out[c][k].success /\ parseCommand(out[c][k].line).action = "close"

\* C22: once a termination signal is being handled, and provided the
\* promises `shutdown` awaits settle, the process in the end has exited with
\* none of the session's files left.  A 'close' command answered during the
\* shutdown does not set the teardown timer, a process that has exited takes
\* no further step, and a signal shutdown that has exited has left no file.
C22_SignalShutdownCompletes ==
    /\ (sdPc # "idle") ~> (exited /\ files = NoFiles)
    /\ [](sdPc # "idle" => ~closeTimer)
    /\ []((exited /\ sdPc # "idle") => files = NoFiles)
    /\ [][~exited]_vars

\* The signal shutdown has run to its end, the files the daemon had written
\* are gone, and a 'close' command was answered while it was under way.
C22_Witness ==
    /\ exited /\ sdPc = "done" /\ files = NoFiles
    /\ \E c \in Conns : \E k \in DOMAIN out[c] : AnswersClose(c, k)

\* C23: once a shutdown is under way (shuttingDown is set by an answered
\* 'close' or by a signal) and the process has not exited, a read whose
\* commands all arrive with it starts no browser launch.
C23_NoLaunchDuringShutdown ==
    [][\A c \in Conns :
          ( /\ shuttingDown /\ ~exited
            /\ buffer[c] = <<>>
            /\ received'[c] # received[c] ) =>
              launchCalls' = launchCalls]_vars

\* C24: on the TCP platform, once the daemon has bound and written its port
\* file and PID file, the port getConnectionInfo reports for the session,
\* and any port it has given a client, is the port the daemon listens on,
\* which is the port in the port file.
C24_ClientPortIsListeningPort ==
    portPc = "listening" =>
        /\ portFile = tryingPort
        /\ getPortForSession(currentSession) = tryingPort
        /\ clientPort # 0 => clientPort = tryingPort

====
